---- MODULE Spec2Model ----
(***************************************************************************)
(* The daemonSet helpers of package framework (GetDaemonSet,               *)
(* DeleteDaemonSet, UpdateDaemonSet, IsDaemonSetAvailable,                 *)
(* IsDaemonSetSynced) and the operator test scenarios that use them, run   *)
(* against a cluster in which the machine API operator recreates and       *)
(* restores the daemonSet.  One action is one remote API call of the       *)
(* client together with the local code that follows it, so that the        *)
(* operator may act between any two calls.                                 *)
(***************************************************************************)
EXTENDS Integers, Sequences, FiniteSets, TLC

\* Number of evaluations a wait.PollImmediate loop makes before its timeout.
ShortAttempts == 2
MediumAttempts == 2
LongAttempts == 3
\* Largest uid the operator gives a daemonSet it creates.
MaxUid == 3
\* Largest number of webhooks in a webhook configuration.
MaxWebhooks == 2

----------------------------------------------------------------------------
\* Data

NilSel == "nil"
Selectors == {NilSel, "app"}
Templates == {"t1", "t2"}
SpecFields == {"selector", "template"}
Specs == [selector : Selectors, template : Templates]
\* The spec the operator gives the daemonSet it manages.
DesiredSpec == [selector |-> "app", template |-> "t1"]
\* The zero value of DaemonSetSpec.
ZeroSpec == [selector |-> NilSel, template |-> ""]
\* A nil *DaemonSet, and an absent daemonSet of the cluster.
NilObj == [uid |-> -1, spec |-> ZeroSpec, ready |-> 0]
\* d := &kappsapi.DaemonSet{}: the object c.Get fills in.  Live objects have uid >= 1.
ZeroObj == [uid |-> 0, spec |-> ZeroSpec, ready |-> 0]

CABundles == {"ca1", "ca2"}
Webhook(ca) == [caBundle |-> ca, arv |-> <<"v1">>]
RECURSIVE WebhookLists(_)
WebhookLists(n) ==
  IF n = 0 THEN {<<>>}
  ELSE WebhookLists(n - 1) \cup
       {Append(l, Webhook(ca)) : l \in {x \in WebhookLists(n - 1) : Len(x) = n - 1},
                                 ca \in CABundles}

Helpers == {"GetDaemonSet", "DeleteDaemonSet", "UpdateDaemonSet",
            "IsDaemonSetAvailable", "IsDaemonSetSynced"}

ZeroObs == [calls |-> 0, maxCalls |-> 0, ok |-> 0, fail |-> 0, first |-> NilObj,
            sawReady |-> FALSE, present |-> 0, last |-> "none", patched |-> ZeroSpec,
            writes |-> 0]
NoRet == [fn |-> "none", ok |-> FALSE, obj |-> NilObj, attempts |-> 0, obs |-> ZeroObs]

VARIABLES
  ds,                \* the cluster's daemonSet (NilObj when absent)
  nextUid,           \* uid of the next daemonSet the operator creates
  whLive,            \* the cluster's webhook configuration: its webhooks
  scenario,          \* the test (It) being run, or "call" for one helper call
  pc,                \* the step of the scenario
  fn,                \* the helper that is running ("none" between helpers)
  at,                \* the API call the helper makes next
  attempt,           \* evaluation number of the helper's own poll loop
  getAttempt,        \* evaluation number of the GetDaemonSet poll loop
  d,                 \* the object GetDaemonSet handed to the helper
  ret,               \* what the last helper returned, with what it observed
  initialDaemonSet,  \* the scenario's initialDaemonSet / the ds argument
  changedDaemonSet,  \* the scenario's changedDaemonSet / the updated argument
  initial, toUpdate, webhook, idx, updated,   \* locals of the webhook scenarios
  obs,               \* what the running helper has observed so far
  before,            \* what the BeforeEach check of the scenario returned
  issued             \* a step of the scenario body has called the cluster's API

cluster == <<ds, nextUid, whLive>>
whLocals == <<initial, toUpdate, webhook, idx, updated>>
dsLocals == <<initialDaemonSet, changedDaemonSet>>
helperState == <<fn, at, attempt, getAttempt, d, ret, obs>>
vars == <<ds, nextUid, whLive, scenario, pc, fn, at, attempt, getAttempt, d, ret,
          initialDaemonSet, changedDaemonSet, initial, toUpdate, webhook, idx,
          updated, obs, before, issued>>

----------------------------------------------------------------------------
\* The API server, as the client sees it.  A call may fail for a reason of the
\* transport or the server: before the server acted on it ("request"), or, for
\* a write, after it did ("response").  An absent object answers NotFound.

Faults == {"none", "request", "response"}

ApiGet(live, fault) ==
  IF fault THEN "Unavailable" ELSE IF live = NilObj THEN "NotFound" ELSE "nil"

ApiDelete(live, fault) ==
  IF fault # "none" THEN "Unavailable" ELSE IF live = NilObj THEN "NotFound" ELSE "nil"

ApiPatch(live, fault) ==
  IF fault # "none" THEN "Unavailable" ELSE IF live = NilObj THEN "NotFound" ELSE "nil"

\* The server carried out a write: the object exists and the request arrived.
Applied(live, fault) == live # NilObj /\ fault # "request"

\* client.MergeFrom(from).Data(obj): the JSON merge patch that turns `from`
\* into `obj`: the fields of obj that differ from those of from.
MergeFrom(from, obj) ==
  [f \in {g \in SpecFields : from.spec[g] # obj.spec[g]} |-> obj.spec[f]]

\* The server applies a merge patch to the live spec.
ApplyPatch(spec, patch) ==
  [f \in SpecFields |-> IF f \in DOMAIN patch THEN patch[f] ELSE spec[f]]

----------------------------------------------------------------------------
\* The condition functions of the helpers: (done, nil) from an API answer.

\* The condition reports done whatever c.Get answered.
GetConditionAlways(err) == TRUE

GetCondition(err) == err = "nil"

\* The condition takes a NotFound answer for a finished deletion.
DeleteConditionNotFound(err) == err \in {"nil", "NotFound"}

\* The condition drops the error of c.Delete.
DeleteConditionAlways(err) == TRUE

DeleteCondition(err) == err = "nil"

PatchCondition(err) == err = "nil"

\* The comparison of NumberReady is off by one.
AvailableConditionLax(obj) == ~(obj.ready < 0)

AvailableCondition(obj) == ~(obj.ready < 1)

\* Only the selectors are compared.
DeepEqualSelector(a, b) == a.selector = b.selector

\* reflect.DeepEqual of two DaemonSetSpec values.
DeepEqual(a, b) == \A f \in SpecFields : a[f] = b[f]

\* The condition hands the error of the API call to the poll loop.
ConditionErrorPropagates(apiErr) == apiErr

\* The error a condition function returns with (false, ...) after an API call
\* that answered apiErr: every one of them returns false, nil.
ConditionError(apiErr) == "nil"

\* wait.PollImmediate ends at once when the condition returns an error.
PollAborts(condErr) == condErr # "nil"

\* The loop runs one evaluation past its timeout.
PollExhaustedLate(n, max) == n >= max + 1

\* wait.PollImmediate: the loop gives up once its timeout has elapsed.
PollExhausted(n, max) == n >= max

MaxAttempts(h) ==
  CASE h = "UpdateDaemonSet" -> MediumAttempts
    [] h = "IsDaemonSetAvailable" -> LongAttempts
    [] h = "IsDaemonSetSynced" -> 1
    [] OTHER -> ShortAttempts

\* The first API call of a helper.
EntryOf(h) ==
  CASE h = "DeleteDaemonSet" -> "delete"
    [] h = "none" -> "idle"
    [] OTHER -> "get"

----------------------------------------------------------------------------
\* The scenarios: the helper each step runs, and the step that follows.

HelperAt(p) ==
  CASE p \in {"r_get", "m_get"} -> "GetDaemonSet"
    [] p \in {"r_avail", "r_avail2", "m_avail", "m_avail2"} -> "IsDaemonSetAvailable"
    [] p = "r_delete" -> "DeleteDaemonSet"
    [] p = "m_update" -> "UpdateDaemonSet"
    [] p \in {"r_synced", "m_synced"} -> "IsDaemonSetSynced"
    [] OTHER -> "none"

\* Every step is an Expect: a helper that fails ends the scenario.
NextStep(p, ok) ==
  IF p = "call" THEN "returned"
  ELSE IF ~ok THEN "failed"
  ELSE CASE p = "r_get" -> "r_avail"
         [] p = "r_avail" -> "r_delete"
         [] p = "r_delete" -> "r_avail2"
         [] p = "r_avail2" -> "r_synced"
         [] p = "r_synced" -> "passed"
         [] p = "m_get" -> "m_avail"
         [] p = "m_avail" -> "m_update"
         [] p = "m_update" -> "m_synced"
         [] p = "m_synced" -> "m_avail2"
         [] p = "m_avail2" -> "passed"
         [] OTHER -> "failed"

\* The first step of the body of a scenario.
FirstStep(sc) ==
  CASE sc = "reconcile" -> "r_get"
    [] sc = "maintains" -> "m_get"
    [] OTHER -> "w_get"

\* The result of the check is not looked at.
BeforeEachStepIgnore(first, available) == first

\* BeforeEach: Expect(framework.IsStatusAvailable(client, "machine-api")).To(BeTrue());
\* the body of the It runs when the Expect held, and the scenario fails otherwise.
BeforeEachStep(first, available) == IF available THEN first ELSE "failed"

\* changedDaemonSet := initialDaemonSet.DeepCopy(); changedDaemonSet.Spec.Selector = nil
Changed(obj) == [obj EXCEPT !.spec.selector = NilSel]

----------------------------------------------------------------------------
\* Bookkeeping of what a helper run observed: its API calls and their answers.

RecordCall(o, err, live) ==
  LET n == o.calls + 1 IN
  [o EXCEPT !.calls = n,
            !.maxCalls = IF n > o.maxCalls THEN n ELSE o.maxCalls,
            !.ok = IF err = "nil" THEN o.ok + 1 ELSE o.ok,
            !.fail = IF err = "nil" THEN o.fail ELSE o.fail + 1,
            !.first = IF err = "nil" /\ o.ok = 0 THEN live ELSE o.first,
            !.last = err,
            !.sawReady = o.sawReady \/ (err = "nil" /\ live.ready >= 1),
            !.present = IF live # NilObj THEN o.present + 1 ELSE o.present]

----------------------------------------------------------------------------
\* The client: control flow shared by the helpers.

\* The scenario goes to step p and enters the helper of that step.
Start(p) ==
  /\ pc' = p
  /\ fn' = HelperAt(p)
  /\ at' = EntryOf(HelperAt(p))
  /\ attempt' = IF HelperAt(p) = "none" THEN 0 ELSE 1
  /\ getAttempt' = IF EntryOf(HelperAt(p)) = "get" THEN 1 ELSE 0
  /\ d' = NilObj
  /\ obs' = ZeroObs

\* The daemonSet is fetched into the argument.
SyncedArgumentOverwritten(dsArg, fetched) == IF fetched = NilObj THEN dsArg ELSE fetched

\* The ds argument of IsDaemonSetSynced after the call: the helper fetches into
\* an object of its own and reads ds.Spec.
SyncedArgument(dsArg, fetched) == dsArg

\* The running helper returns: ok is its boolean, or err == nil; obj its object.
Return(ok, obj, o) ==
  /\ ret' = [fn |-> fn, ok |-> ok, obj |-> obj, attempts |-> attempt, obs |-> o]
  /\ initialDaemonSet' = IF pc \in {"r_get", "m_get"} THEN obj
                         ELSE IF fn = "IsDaemonSetSynced"
                                THEN SyncedArgument(initialDaemonSet, obj)
                                ELSE initialDaemonSet
  /\ changedDaemonSet' = IF pc = "m_avail" /\ ok THEN Changed(initialDaemonSet)
                         ELSE changedDaemonSet
  /\ Start(NextStep(pc, ok))

\* The condition function of the helper's own poll loop returned (false, nil).
Retry(o) ==
  IF PollAborts(ConditionError(o.last)) \/ PollExhausted(attempt, MaxAttempts(fn))
    THEN Return(FALSE, NilObj, o)
    ELSE /\ attempt' = attempt + 1
         /\ at' = EntryOf(fn)
         /\ getAttempt' = IF EntryOf(fn) = "get" THEN 1 ELSE 0
         /\ d' = NilObj
         /\ obs' = [o EXCEPT !.calls = 0]
         /\ UNCHANGED <<pc, fn, ret, dsLocals>>

\* GetDaemonSet returned (obj, nil) or (nil, err) to the helper that called it.
AfterGet(obj, err, o) ==
  CASE fn = "GetDaemonSet" -> Return(~err, obj, o)
    [] fn = "UpdateDaemonSet" ->
         IF err THEN Retry(o)
         ELSE /\ at' = "patch"
              /\ d' = obj
              /\ getAttempt' = 0
              /\ obs' = o
              /\ UNCHANGED <<pc, fn, attempt, ret, dsLocals>>
    [] fn = "IsDaemonSetAvailable" ->
         IF err THEN Retry(o)
         ELSE IF AvailableCondition(obj)
                THEN Return(TRUE, obj, o)
                ELSE Retry(o)
    [] fn = "IsDaemonSetSynced" ->
         IF err THEN Return(FALSE, NilObj, o)
         ELSE Return(DeepEqual(obj.spec, initialDaemonSet.spec), obj, o)

----------------------------------------------------------------------------
\* BeforeEach of "Machine API operator deployment should": the check of the
\* cluster operator status, whose answer is the cluster's.
BeforeEach ==
  /\ pc = "before"
  /\ \E available \in BOOLEAN :
       /\ before' = IF available THEN "true" ELSE "false"
       /\ Start(BeforeEachStep(FirstStep(scenario), available))
  /\ UNCHANGED <<cluster, scenario, ret, dsLocals, whLocals, issued>>

----------------------------------------------------------------------------
\* The client: one action per remote API call.

\* One evaluation of GetDaemonSet's condition function: c.Get.
GetAttempt ==
  /\ at = "get"
  /\ \E fault \in BOOLEAN :
       LET err == ApiGet(ds, fault)
           o == RecordCall(obs, err, ds)
       IN  IF GetCondition(err)
             THEN AfterGet(IF err = "nil" THEN ds ELSE ZeroObj, FALSE, o)
             ELSE IF PollAborts(ConditionError(err)) \/ PollExhausted(getAttempt, ShortAttempts)
                    THEN AfterGet(NilObj, TRUE, o)
                    ELSE /\ getAttempt' = getAttempt + 1
                         \* called by a test, the loop is the helper's own
                         /\ attempt' = IF fn = "GetDaemonSet" THEN attempt + 1 ELSE attempt
                         /\ obs' = IF fn = "GetDaemonSet" THEN [o EXCEPT !.calls = 0] ELSE o
                         /\ UNCHANGED <<pc, fn, at, d, ret, dsLocals>>
  /\ issued' = TRUE
  /\ UNCHANGED <<cluster, scenario, before, whLocals>>

\* One evaluation of DeleteDaemonSet's condition function: c.Delete.
DeleteAttempt ==
  /\ at = "delete"
  /\ \E fault \in Faults :
       LET err == ApiDelete(ds, fault)
           o == [RecordCall(obs, err, ds) EXCEPT !.writes = @ + 1]
       IN  /\ ds' = IF Applied(ds, fault) THEN NilObj ELSE ds
           /\ IF DeleteCondition(err) THEN Return(TRUE, NilObj, o) ELSE Retry(o)
  /\ issued' = TRUE
  /\ UNCHANGED <<nextUid, whLive, scenario, before, whLocals>>

\* The second half of UpdateDaemonSet's condition function: c.Patch.
PatchAttempt ==
  /\ at = "patch"
  /\ \E fault \in Faults :
       LET err == ApiPatch(ds, fault)
           live == IF Applied(ds, fault)
                     THEN [ds EXCEPT !.spec = ApplyPatch(ds.spec, MergeFrom(changedDaemonSet, d))]
                     ELSE ds
           o == [RecordCall(obs, err, ds) EXCEPT !.patched = live.spec, !.writes = @ + 1]
       IN  /\ ds' = live
           /\ IF PatchCondition(err) THEN Return(TRUE, NilObj, o) ELSE Retry(o)
  /\ issued' = TRUE
  /\ UNCHANGED <<nextUid, whLive, scenario, before, whLocals>>

----------------------------------------------------------------------------
\* The machine API operator and the daemonSet controller (the system under test).

\* The operator creates the daemonSet it manages when it is absent.
OperatorRecreate ==
  /\ ds = NilObj
  /\ nextUid <= MaxUid
  /\ ds' = [uid |-> nextUid, spec |-> DesiredSpec, ready |-> 0]
  /\ nextUid' = nextUid + 1
  /\ UNCHANGED <<whLive, scenario, before, issued, pc, helperState, dsLocals, whLocals>>

\* The operator sets the spec of its daemonSet back to the desired one.
OperatorRestoreSpec ==
  /\ ds # NilObj
  /\ ds.spec # DesiredSpec
  /\ ds' = [ds EXCEPT !.spec = DesiredSpec]
  /\ UNCHANGED <<nextUid, whLive, scenario, before, issued, pc, helperState, dsLocals, whLocals>>

\* A pod of the daemonSet becomes ready: Status.NumberReady goes to 1.
PodsBecomeReady ==
  /\ ds # NilObj
  /\ ds.ready = 0
  /\ ds' = [ds EXCEPT !.ready = 1]
  /\ UNCHANGED <<nextUid, whLive, scenario, before, issued, pc, helperState, dsLocals, whLocals>>

\* The pods of the daemonSet stop being ready.
PodsFail ==
  /\ ds # NilObj
  /\ ds.ready = 1
  /\ ds' = [ds EXCEPT !.ready = 0]
  /\ UNCHANGED <<nextUid, whLive, scenario, before, issued, pc, helperState, dsLocals, whLocals>>

----------------------------------------------------------------------------
\* The webhook scenarios ("maintains spec after ... webhook configuration
\* change and preserve caBundle"), the same for the mutating and the
\* validating configuration.

Webhooks == {"mutatingWebhook", "validatingWebhook"}
ZeroWebhook == [caBundle |-> "", arv |-> <<>>]

\* The body of `for _, webhook := range toUpdate.Webhooks`: webhook is a copy
\* of the element, and the two assignments change the copy.
LoopBody(w) == [w EXCEPT !.caBundle = "test", !.arv = <<"test">>]

\* What the loop body leaves in the list for element i, given the loop variable.
RangeElement(list, i, w) == list

\* Is...WebhookConfigurationSynced: the live webhooks are the operator's,
\* whatever their caBundle.
WebhooksSynced(live) == \A i \in 1..Len(live) : live[i].arv = <<"v1">>

WebhookFail ==
  /\ pc' = "failed"
  /\ UNCHANGED <<whLocals, whLive>>

\* initial, err := framework.Get...WebhookConfiguration; toUpdate := initial.DeepCopy()
WebhookGet ==
  /\ scenario \in Webhooks /\ pc = "w_get"
  /\ \E fault \in BOOLEAN :
       IF fault THEN WebhookFail
       ELSE /\ initial' = whLive
            /\ toUpdate' = whLive
            /\ idx' = 1
            /\ pc' = "w_loop"
            /\ UNCHANGED <<webhook, updated, whLive>>
  /\ issued' = TRUE
  /\ UNCHANGED <<ds, nextUid, scenario, before, helperState, dsLocals>>

\* One iteration of the loop over toUpdate.Webhooks, or its end.
WebhookLoop ==
  /\ scenario \in Webhooks /\ pc = "w_loop"
  /\ IF idx <= Len(toUpdate)
       THEN /\ webhook' = LoopBody(toUpdate[idx])
            /\ toUpdate' = RangeElement(toUpdate, idx, LoopBody(toUpdate[idx]))
            /\ idx' = idx + 1
            /\ UNCHANGED <<pc, initial, updated>>
       ELSE /\ pc' = "w_update"
            /\ UNCHANGED whLocals
  /\ UNCHANGED <<cluster, scenario, before, issued, helperState, dsLocals>>

\* Expect(framework.Update...WebhookConfiguration(client, toUpdate)).To(Succeed())
WebhookUpdate ==
  /\ scenario \in Webhooks /\ pc = "w_update"
  /\ \E fault \in BOOLEAN :
       IF fault THEN WebhookFail
       ELSE /\ whLive' = toUpdate
            /\ pc' = "w_synced"
            /\ UNCHANGED whLocals
  /\ issued' = TRUE
  /\ UNCHANGED <<ds, nextUid, scenario, before, helperState, dsLocals>>

\* Expect(framework.Is...WebhookConfigurationSynced(client)).To(BeTrue())
WebhookSynced ==
  /\ scenario \in Webhooks /\ pc = "w_synced"
  /\ \E fault \in BOOLEAN :
       IF fault \/ ~WebhooksSynced(whLive) THEN WebhookFail
       ELSE /\ pc' = "w_get2"
            /\ UNCHANGED <<whLocals, whLive>>
  /\ issued' = TRUE
  /\ UNCHANGED <<ds, nextUid, scenario, before, helperState, dsLocals>>

\* updated, err := framework.Get...WebhookConfiguration
WebhookReadBack ==
  /\ scenario \in Webhooks /\ pc = "w_get2"
  /\ \E fault \in BOOLEAN :
       IF fault THEN WebhookFail
       ELSE /\ updated' = whLive
            /\ pc' = "w_compare"
            /\ UNCHANGED <<initial, toUpdate, webhook, idx, whLive>>
  /\ issued' = TRUE
  /\ UNCHANGED <<ds, nextUid, scenario, before, helperState, dsLocals>>

\* The final loop: every caBundle read back equals the initial one at its index.
WebhookCompare ==
  /\ scenario \in Webhooks /\ pc = "w_compare"
  /\ pc' = IF \A i \in 1..Len(updated) :
                i <= Len(initial) /\ updated[i].caBundle = initial[i].caBundle
             THEN "passed" ELSE "failed"
  /\ UNCHANGED <<cluster, scenario, before, issued, helperState, dsLocals, whLocals>>

----------------------------------------------------------------------------
\* The specification.

\* The daemonSet the test finds: absent, or present with a selector (the API
\* server admits no daemonSet without one) and a template that may have been
\* edited since the operator last set it.
InitDaemonSets ==
  {NilObj} \cup {[uid |-> 1, spec |-> s, ready |-> r] :
                   s \in {x \in Specs : x.selector # NilSel}, r \in 0..1}

InitCommon ==
  /\ nextUid = 2
  /\ d = NilObj /\ ret = NoRet /\ obs = ZeroObs
  /\ before = "unchecked" /\ issued = FALSE
  /\ initial = <<>> /\ toUpdate = <<>> /\ updated = <<>>
  /\ webhook = ZeroWebhook /\ idx = 0

\* One of the two daemonSet scenarios, from its BeforeEach.
InitScenario ==
  /\ scenario \in {"reconcile", "maintains"}
  /\ pc = "before"
  /\ fn = "none" /\ at = "idle" /\ attempt = 0 /\ getAttempt = 0
  /\ ds \in InitDaemonSets
  /\ whLive = <<Webhook("ca1")>>
  /\ initialDaemonSet = NilObj /\ changedDaemonSet = NilObj

\* One call of one helper, with a daemonSet argument of any spec.
InitCall ==
  /\ scenario = "call" /\ pc = "call"
  /\ fn \in Helpers
  /\ at = EntryOf(fn) /\ attempt = 1
  /\ getAttempt = IF EntryOf(fn) = "get" THEN 1 ELSE 0
  /\ ds \in InitDaemonSets
  /\ whLive = <<Webhook("ca1")>>
  /\ \E s \in Specs :
       /\ initialDaemonSet = [uid |-> 1, spec |-> s, ready |-> 0]
       /\ changedDaemonSet = [uid |-> 1, spec |-> s, ready |-> 0]

\* One of the two webhook scenarios, from its BeforeEach.
InitWebhook ==
  /\ scenario \in Webhooks /\ pc = "before"
  /\ fn = "none" /\ at = "idle" /\ attempt = 0 /\ getAttempt = 0
  /\ ds = [uid |-> 1, spec |-> DesiredSpec, ready |-> 1]
  /\ whLive \in WebhookLists(MaxWebhooks)
  /\ initialDaemonSet = NilObj /\ changedDaemonSet = NilObj

Init == InitCommon /\ (InitScenario \/ InitCall \/ InitWebhook)

Next ==
  \/ BeforeEach
  \/ GetAttempt
  \/ DeleteAttempt
  \/ PatchAttempt
  \/ OperatorRecreate
  \/ OperatorRestoreSpec
  \/ PodsBecomeReady
  \/ PodsFail
  \/ WebhookGet
  \/ WebhookLoop
  \/ WebhookUpdate
  \/ WebhookSynced
  \/ WebhookReadBack
  \/ WebhookCompare

Spec == Init /\ [][Next]_vars

\* The test process runs on: a helper that can make its next API call makes it.
ClientStep == GetAttempt \/ DeleteAttempt \/ PatchAttempt
\* One call of one helper, whatever the operator and the pods do meanwhile.
HelperNext ==
  \/ GetAttempt
  \/ DeleteAttempt
  \/ PatchAttempt
  \/ OperatorRecreate
  \/ OperatorRestoreSpec
  \/ PodsBecomeReady
  \/ PodsFail
HelperInit == InitCommon /\ InitCall
HelperFairSpec ==
  /\ HelperInit
  /\ [][HelperNext]_vars
  /\ WF_vars(ClientStep)

----------------------------------------------------------------------------
\* Properties

\* C1: IsDaemonSetAvailable returns true exactly when some Get of the run
\* succeeded and showed Status.NumberReady >= 1; otherwise it returns false,
\* and only after the last evaluation of its WaitLong loop.
C1_AvailableIffSawReady ==
  ret.fn = "IsDaemonSetAvailable" =>
    /\ ret.ok <=> ret.obs.sawReady
    /\ ~ret.ok => ret.attempts = LongAttempts

\* IsDaemonSetAvailable returned true on a later evaluation, after a failed Get.
C1_Witness ==
  /\ ret.fn = "IsDaemonSetAvailable" /\ ret.ok
  /\ ret.attempts >= 2 /\ ret.obs.fail >= 1

\* C2: IsDaemonSetSynced returns true exactly when the daemonSet was fetched
\* and the spec fetched equals the spec of the expected daemonSet.
C2_SyncedIffEqual ==
  ret.fn = "IsDaemonSetSynced" =>
    (ret.ok <=> (ret.obs.ok >= 1 /\ ret.obs.first.spec = initialDaemonSet.spec))

\* IsDaemonSetSynced returned false for a fetched spec that differs from the
\* expected one in the template alone.
C2_Witness ==
  /\ ret.fn = "IsDaemonSetSynced" /\ ~ret.ok /\ ret.obs.ok = 1
  /\ ret.obs.first.spec.selector = initialDaemonSet.spec.selector
  /\ ret.obs.first.spec.template # initialDaemonSet.spec.template

\* C3: no helper returns its negative result on the strength of one
\* evaluation: a run that ends negative has made at least two API calls.
C3_NegativeOnlyAfterRetry ==
  (ret.fn \in Helpers /\ ~ret.ok) => ret.obs.ok + ret.obs.fail >= 2

\* C4: when UpdateDaemonSet returns nil, the live spec the accepted patch left
\* is the spec of the `updated` argument.
C4_PatchAppliesUpdated ==
  (ret.fn = "UpdateDaemonSet" /\ ret.ok) => ret.obs.patched = changedDaemonSet.spec

\* C5: GetDaemonSet returns an object or an error, never both and never
\* neither; the object is the one its first successful Get fetched; the error
\* comes exactly when every Get of the WaitShort loop failed.
C5_GetObjectXorError ==
  ret.fn = "GetDaemonSet" =>
    /\ ret.ok <=> ret.obj # NilObj
    /\ ret.ok => (ret.obs.ok = 1 /\ ret.obs.last = "nil" /\ ret.obj = ret.obs.first)
    /\ ~ret.ok <=> (ret.obs.ok = 0 /\ ret.obs.fail = ShortAttempts)

\* GetDaemonSet returned the object of a Get that followed a failed one.
C5_Witness ==
  ret.fn = "GetDaemonSet" /\ ret.ok /\ ret.obs.fail >= 1

\* C6: DeleteDaemonSet returns nil only when a Delete call succeeded, that
\* call being its last; it returns an error when every call of the WaitShort
\* loop failed; a daemonSet absent at every call never gives nil.
C6_DeleteNilOnlyAfterSuccess ==
  ret.fn = "DeleteDaemonSet" =>
    /\ ret.ok => (ret.obs.ok = 1 /\ ret.obs.last = "nil")
    /\ ~ret.ok <=> (ret.obs.ok = 0 /\ ret.obs.fail = ShortAttempts)
    /\ ret.obs.present = 0 => ~ret.ok

\* DeleteDaemonSet returned an error for a daemonSet absent at every call,
\* the API answering NotFound at the last.
C6_Witness ==
  /\ ret.fn = "DeleteDaemonSet" /\ ~ret.ok
  /\ ret.obs.present = 0 /\ ret.obs.last = "NotFound"

\* The most API calls one evaluation of a helper's condition makes: the Get
\* calls of a nested GetDaemonSet loop, and the Patch that follows them.
CallsPerAttempt(h) ==
  CASE h \in {"GetDaemonSet", "DeleteDaemonSet"} -> 1
    [] h = "UpdateDaemonSet" -> ShortAttempts + 1
    [] h \in {"IsDaemonSetAvailable", "IsDaemonSetSynced"} -> ShortAttempts
    [] OTHER -> 0

C7_Bounded ==
  /\ attempt <= MaxAttempts(fn)
  /\ getAttempt <= ShortAttempts
  /\ obs.maxCalls <= CallsPerAttempt(fn)
  /\ ret.attempts <= MaxAttempts(ret.fn)
  /\ ret.obs.maxCalls <= CallsPerAttempt(ret.fn)
  /\ (ret.fn \in Helpers /\ ~ret.ok /\ ret.fn # "IsDaemonSetSynced")
       => ret.attempts = MaxAttempts(ret.fn)

\* C7 (as stated): every evaluation of a helper's condition makes a single
\* remote API call.
C7_SingleCallPerAttempt ==
  obs.maxCalls <= 1 /\ ret.obs.maxCalls <= 1

\* C7 (amended): every helper run ends, whatever the API answers; no poll loop
\* runs past its number of evaluations; an evaluation of GetDaemonSet or
\* DeleteDaemonSet makes one API call, one of IsDaemonSetAvailable or
\* IsDaemonSetSynced at most the Get calls of one GetDaemonSet loop, one of
\* UpdateDaemonSet those and one Patch.
C7_TerminatesBounded ==
  [](C7_Bounded) /\ <>(fn = "none")

\* UpdateDaemonSet gave up after its last evaluation, every API call of the
\* run having failed.
C7_Witness ==
  /\ ret.fn = "UpdateDaemonSet" /\ ~ret.ok
  /\ ret.attempts = MediumAttempts /\ ret.obs.ok = 0
  /\ ret.obs.maxCalls = ShortAttempts

\* C8: in "reconcile termination handler daemonSet", the check that the
\* daemonSet is available again succeeds only on an object created after the
\* one captured at the start, and the scenario passes only when the spec fetched
\* by the final check equals the spec captured before the deletion.
C8_PassOnlyIfRecreated ==
  (scenario = "reconcile" /\ pc \in {"r_synced", "passed"}) =>
    /\ ret.obj.uid > initialDaemonSet.uid
    /\ nextUid > initialDaemonSet.uid + 1
    /\ pc = "passed" => ret.obs.first.spec = initialDaemonSet.spec

\* The scenario passed.
C8_Witness ==
  scenario = "reconcile" /\ pc = "passed" /\ ret.fn = "IsDaemonSetSynced"

C10_ToUpdateOverwritten ==
  (scenario \in Webhooks /\ pc = "w_update") =>
    \A i \in 1..Len(toUpdate) :
      toUpdate[i].caBundle = "test" /\ toUpdate[i].arv = <<"test">>

\* C11: in the suite, a step of a scenario body is reached, and a call of the
\* cluster's API by the body is made, only after the BeforeEach check returned
\* true; when the check returned false the scenario has failed without any
\* call of the body.
C11_BodyOnlyAfterBeforeEach ==
  scenario # "call" =>
    /\ (issued \/ pc \notin {"before", "failed"}) => before = "true"
    /\ before = "false" => (~issued /\ pc = "failed" /\ ret = NoRet)

\* The body of a scenario called the API, the check having returned true.
C11_Witness ==
  scenario # "call" /\ before = "true" /\ issued /\ pc \notin {"before", "failed"}

\* C12: the helpers that poll return their negative result only at the last
\* evaluation of their loop; an API error, the error of a nested GetDaemonSet
\* that timed out included, is retried: a run of GetDaemonSet or DeleteDaemonSet
\* that ends in an error has made every call of the WaitShort loop, and a run
\* of UpdateDaemonSet or IsDaemonSetAvailable in which no call succeeded has
\* made every Get of every nested loop of every evaluation.
C12_OnlyTimeoutErrors ==
  /\ (ret.fn \in Helpers \ {"IsDaemonSetSynced"} /\ ~ret.ok)
       => ret.attempts = MaxAttempts(ret.fn)
  /\ (ret.fn \in {"GetDaemonSet", "DeleteDaemonSet"} /\ ~ret.ok)
       => ret.obs.fail = ShortAttempts
  /\ (ret.fn \in {"UpdateDaemonSet", "IsDaemonSetAvailable"} /\ ret.obs.ok = 0)
       => ret.obs.fail = MaxAttempts(ret.fn) * ShortAttempts
  /\ (ret.fn = "IsDaemonSetSynced" /\ ret.obs.ok = 0) => ret.obs.fail = ShortAttempts

\* IsDaemonSetAvailable returned false after nested GetDaemonSet calls that all
\* timed out, the API answering both NotFound and Unavailable on the way.
C12_Witness ==
  /\ ret.fn = "IsDaemonSetAvailable" /\ ~ret.ok /\ ret.obs.ok = 0
  /\ ret.obs.present >= 1 /\ ret.obs.present < ret.obs.fail

ReadOnly == {"GetDaemonSet", "IsDaemonSetAvailable", "IsDaemonSetSynced"}

\* A step of the running helper: an API call, which the observation records.
HelperStep == obs' # obs

\* C13: GetDaemonSet, IsDaemonSetAvailable and IsDaemonSetSynced make no
\* Delete or Patch call, and no step of theirs changes the cluster (the
\* daemonSet's existence, uid, spec and status, the webhook configuration);
\* no step of IsDaemonSetSynced changes its ds argument, and no step of
\* UpdateDaemonSet its updated argument.
C13_ReadOnlyHelpers ==
  /\ [](obs.writes = 0 \/ fn \notin ReadOnly)
  /\ [](ret.obs.writes = 0 \/ ret.fn \notin ReadOnly)
  /\ [][(fn \in ReadOnly /\ HelperStep) => UNCHANGED <<ds, nextUid, whLive>>]_vars
  /\ [][(fn = "IsDaemonSetSynced" /\ HelperStep)
          => initialDaemonSet' = initialDaemonSet]_vars
  /\ [][(fn = "UpdateDaemonSet" /\ HelperStep)
          => changedDaemonSet' = changedDaemonSet]_vars

\* IsDaemonSetSynced returned after a failed and a successful Get, having
\* fetched a spec other than the one of its argument.
C13_Witness ==
  /\ ret.fn = "IsDaemonSetSynced" /\ ret.obs.fail >= 1 /\ ret.obs.ok = 1
  /\ ret.obs.first.spec # initialDaemonSet.spec

====
